---- MODULE Spec2Model ----
(***************************************************************************)
(* A model of tempy/tempy.py: the DOMElement tree (childs / parent), the   *)
(* argument flattening of the content_receiver decorator, content          *)
(* injection and lookup, and the _stable / _render cache of Tag.render.    *)
(*                                                                         *)
(* Python values are modelled as follows.                                  *)
(*   - a tree node or a plain child is a string (its identity);            *)
(*   - None is the string "None"; an optional integer is <<>> (None) or    *)
(*     <<i>>;                                                              *)
(*   - a rendered string is a sequence of tokens;                          *)
(*   - an exception leaving a call is recorded in err, and the changes     *)
(*     made before the raise are kept, as in Python.                       *)
(***************************************************************************)
EXTENDS Integers, Sequences, FiniteSets, TLC

VARIABLES childs, parent, content_data, attrs, _stable, _render,
          pep479, err, last, ops

vars == <<childs, parent, content_data, attrs, _stable, _render,
          pep479, err, last, ops>>

(***************************************************************************)
(* The objects of a run.                                                   *)
(***************************************************************************)
\* Tag instances; every one is a DOMElement.
Elems == {"e1", "e2", "e3"}

\* Instances of a VoidTag subclass (_void = True).
VoidElems == {"e3"}

\* Content placeholders.
Conts == {"c1", "c2"}

\* Children that are neither DOMElement nor Content: a text, and the list
\* object that a named sequence argument is kept as.
Plains == {"t", "lst"}

Nodes == Elems \cup Conts

Items == Nodes \cup Plains

None == "None"

\* Content(name="x") and Content(name="x", content="F").
ContName == [c \in Conts |-> "x"]

_fixed_content == [c \in Conts |-> IF c = "c2" THEN "F" ELSE None]

\* Names that can be bound with inject.
Names == {"x"}

\* Values bound with inject; "" is a falsy value.
Vals == {"", "v1", "v2"}

\* Values written with attr(id=...).
AttrVals == {"a", "b"}

\* The entry of a dict that holds no value for a key.
Missing == "<missing>"

\* The recursion depth no acyclic tree of Elems exceeds; a deeper call chain
\* repeats an element and ends in Python's RecursionError.
MaxDepth == Cardinality(Elems)

(***************************************************************************)
(* Bounds of the exploration.                                              *)
(***************************************************************************)
\* Number of calls made on the tree in one run of Spec.
MaxOps == 2

\* Number of calls made in one run of SpecRender.
MaxRenderOps == 4

\* Calls made in a behaviour of SpecAttrs.
MaxAttrOps == 3

\* Calls made in a behaviour of SpecCss.
MaxCssOps == 3

\* Calls made in a behaviour of SpecStable.
MaxStableOps == 4

\* Calls made in a behaviour of SpecDfs.
MaxDfsOps == 3

\* Calls made in a behaviour of SpecContent.
MaxContentOps == 4

(***************************************************************************)
(* Optional integers and Python list primitives (0-based indices).         *)
(***************************************************************************)
NoInt == <<>>

Some(i) == <<i>>

Ok(s) == [s |-> s, err |-> "ok"]

Raise(s, e) == [s |-> s, err |-> e]

\* list.insert(idx, x): a negative index counts from the end, and the index
\* is clamped to the list.
ListInsert(seq, idx, x) ==
    LET n == Len(seq)
        j == IF idx < 0 THEN (IF idx + n < 0 THEN 0 ELSE idx + n)
             ELSE IF idx > n THEN n ELSE idx
    IN SubSeq(seq, 1, j) \o <<x>> \o SubSeq(seq, j + 1, n)

\* The list without the element at 0-based position j.
ListRemoveAt(seq, j) == SubSeq(seq, 1, j) \o SubSeq(seq, j + 2, Len(seq))

\* list.index(x) with DOMElement.__eq__ (uuid comparison): an element that is
\* the same object matches; a plain value met before the match has no uuid,
\* so the comparison raises AttributeError; no match raises ValueError.
RECURSIVE ListIndexFrom(_, _, _)
ListIndexFrom(seq, x, k) ==
    IF k > Len(seq) THEN [err |-> "ValueError", val |-> NoInt]
    ELSE IF seq[k] = x THEN [err |-> "ok", val |-> Some(k - 1)]
    ELSE IF seq[k] \in Plains THEN [err |-> "AttributeError", val |-> NoInt]
    ELSE ListIndexFrom(seq, x, k + 1)

ListIndex(seq, x) == ListIndexFrom(seq, x, 1)

\* bool(obj) of a DOMElement or None: DOMElement defines __len__, so an
\* element without children is falsy.
Truthy(s, p) == p # None /\ Len(s.childs[p]) > 0

(***************************************************************************)
(* Arguments of the child accepting methods.  An argument is one item or a *)
(* list, a tuple or a generator of arguments.                              *)
(***************************************************************************)
ItemArg(x) == [kind |-> "item", obj |-> x, elems |-> <<>>]

SeqArg(k, xs) == [kind |-> k, obj |-> "", elems |-> xs]

SeqKinds == {"list", "tuple", "generator"}

\* A named sequence is kept as one child: the list object itself.
ListObject == "lst"

\* DOMElement._own_index
_own_index(s, self) ==
    IF Truthy(s, s.parent[self])
    THEN ListIndex(s.childs[s.parent[self]], self)
    ELSE [err |-> "ok", val |-> NoInt]

\* DOMElement._yield_items: the pairs (i, obj) yielded, in order, and the
\* exception that ends the iteration ("ok" when it ends normally).  kind is
\* the type of items: the slice items[::verse] needs a list or a tuple.
\* named[k] tells whether the k-th entry of the chain carries a name.
RECURSIVE _yield_walk(_, _, _, _)
RECURSIVE _yield_items(_, _, _, _)
_yield_walk(chain, named, k, acc) ==
    IF k > Len(chain) THEN [out |-> acc, err |-> "ok"]
    ELSE LET item == chain[k]
             i == k - 1
         IN IF item.kind \in SeqKinds
            THEN IF named[k]
                 THEN _yield_walk(chain, named, k + 1,
                                  Append(acc, [i |-> i, obj |-> ListObject]))
                 ELSE LET sub == _yield_items(item.kind, item.elems, <<>>, FALSE)
                      IN IF sub.err # "ok"
                         THEN [out |-> acc \o sub.out, err |-> sub.err]
                         ELSE _yield_walk(chain, named, k + 1, acc \o sub.out)
            ELSE _yield_walk(chain, named, k + 1,
                             Append(acc, [i |-> i, obj |-> item.obj]))

Reversed(seq) == [k \in 1..Len(seq) |-> seq[Len(seq) + 1 - k]]

_yield_items(kind, items, kwitems, reverse) ==
    LET verse == <<1, 0>>[IF reverse THEN 2 ELSE 1]
    IN IF kind = "generator"
       THEN [out |-> <<>>, err |-> "TypeError"]
       ELSE IF verse = 0
       THEN [out |-> <<>>, err |-> "ValueError"]
       ELSE LET unnamed == IF verse = 1 THEN items ELSE Reversed(items)
                named == IF verse = 1 THEN kwitems ELSE Reversed(kwitems)
                chain == IF verse = 1 THEN unnamed \o named ELSE named \o unnamed
                flags == IF verse = 1
                         THEN [k \in 1..Len(chain) |-> k > Len(unnamed)]
                         ELSE [k \in 1..Len(chain) |-> k <= Len(named)]
            IN _yield_walk(chain, flags, 1, <<>>)

\* DOMElement._insert
_insert(s, self, child, idx, prepend) ==
    LET idx1 == IF idx # NoInt /\ idx[1] # 0 /\ idx[1] < 0 THEN Some(0) ELSE idx
        idx2 == IF prepend THEN 0
                ELSE IF idx1 # NoInt THEN idx1[1] ELSE Len(s.childs[self])
        s1 == [s EXCEPT !.childs[self] = ListInsert(s.childs[self], idx2, child)]
    IN IF child \in Nodes
       THEN [s1 EXCEPT !.parent[child] = self]
       ELSE s1

\* The methods decorated with content_receiver, as func(inst, i, tag).
FuncNames == {"__call__", "after", "before", "prepend", "append"}

\* The reverse parameter of the decorator at each method.
ReceiverReverse(f) == f \in {"before", "prepend"}

\* Positional parameters each decorated function declares (self included).
FuncParams(f) == IF f \in {"prepend", "append"} THEN 2 ELSE 3

\* The sibling insertion shared by after (sign = 1) and before (sign = -1).
\* oi is the outcome of self._own_index.
SiblingInsertAt(s, self, i, child, sign, oi) ==
    IF oi.err # "ok" THEN Raise(s, oi.err)
    ELSE IF oi.val = NoInt THEN Raise(s, "TypeError")
    ELSE Ok(_insert(s, s.parent[self], child,
                    Some(IF sign = 1 THEN oi.val[1] + 1 + i
                         ELSE oi.val[1] - i), FALSE))

\* after / before that leave a node without parent alone.
SiblingInsertRootlessOk(s, self, i, child, sign) ==
    IF s.parent[self] = None THEN Ok(s)
    ELSE SiblingInsertAt(s, self, i, child, sign, _own_index(s, self))

SiblingInsert(s, self, i, child, sign) ==
    IF s.parent[self] = None THEN Raise(s, "AttributeError")
    ELSE SiblingInsertAt(s, self, i, child, sign, _own_index(s, self))

\* The body of each decorated method.
FuncBody(f, s, self, i, child) ==
    CASE f = "__call__" -> Ok(_insert(s, self, child, NoInt, FALSE))
      [] f = "after"    -> SiblingInsert(s, self, i, child, 1)
      [] f = "before"   -> SiblingInsert(s, self, i, child, -1)
      [] f = "prepend"  -> Ok(_insert(s, self, child, NoInt, TRUE))
      [] f = "append"   -> Ok(_insert(s, self, child, NoInt, FALSE))

\* wrapped calls func(inst, i, tag): three positional arguments.
FuncCall(f, s, inst, i, tag) ==
    IF FuncParams(f) # 3 THEN Raise(s, "TypeError")
    ELSE FuncBody(f, s, inst, i, tag)

\* DOMElement.content_receiver: the loop of wrapped over the yielded pairs.
\* r is the outcome of the k-th call of func; y is the outcome of
\* _yield_items, whose exception (if any) ends the loop after the pairs it
\* yielded.
RECURSIVE ReceiverLoop(_, _, _, _, _)
RECURSIVE ReceiverStep(_, _, _, _, _)
ReceiverStep(f, r, inst, out, k) ==
    IF r.err # "ok" THEN r
    ELSE ReceiverLoop(f, r.s, inst, out, k + 1)

ReceiverLoop(f, s, inst, out, k) ==
    IF k > Len(out) THEN Ok(s)
    ELSE ReceiverStep(f, FuncCall(f, [s EXCEPT !.stable[inst] = FALSE], inst,
                                  out[k].i, out[k].obj),
                      inst, out, k)

ReceiverEnd(r, y) == IF r.err # "ok" THEN r ELSE Raise(r.s, y.err)

ReceiverRun(f, s, inst, y) == ReceiverEnd(ReceiverLoop(f, s, inst, y.out, 1), y)

content_receiver(f, s, inst, tags, kwtags) ==
    ReceiverRun(f, s, inst,
                _yield_items("tuple", tags, kwtags, ReceiverReverse(f)))

\* DOMElement.inject: contents maps each name to a value or to Missing.
inject(s, self, contents) ==
    [s EXCEPT !.stable[self] = FALSE,
              !.content_data[self] =
                  [n \in Names |-> IF contents[n] # Missing THEN contents[n]
                                   ELSE s.content_data[self][n]]]

\* DOMElement.pop
pop(s, self, idx) ==
    LET s1 == [s EXCEPT !.stable[self] = FALSE]
        n == Len(s.childs[self])
        idx1 == IF idx = NoInt \/ idx[1] = 0 THEN n - 1 ELSE idx[1]
        j == IF idx1 < 0 THEN idx1 + n ELSE idx1
    IN IF j < 0 \/ j >= n
       THEN [s |-> s1, err |-> "IndexError", ret |-> None]
       ELSE LET elem == s.childs[self][j + 1]
                s2 == [s1 EXCEPT !.childs[self] = ListRemoveAt(s.childs[self], j)]
            IN [s |-> IF elem \in Elems THEN [s2 EXCEPT !.parent[elem] = None]
                      ELSE s2,
                err |-> "ok", ret |-> elem]

\* DOMElement.wrap
\* p is the outcome of self.parent.pop(...), whose return value is dropped.
WrapPopped(p) == Raise(p.s, p.err)

\* oi is the outcome of self._own_index.
WrapPop(s, self, oi) ==
    IF oi.err # "ok" THEN Raise(s, oi.err)
    ELSE WrapPopped(pop(s, s.parent[self], oi.val))

\* b is the outcome of self.before(other).
WrapAfterBefore(b, self) ==
    IF b.err # "ok" THEN b
    ELSE WrapPop(b.s, self, _own_index(b.s, self))

\* The body of `if self.parent:`.
WrapDetach(s, self, other) ==
    IF Truthy(s, s.parent[self])
    THEN WrapAfterBefore(content_receiver("before", s, self,
                                          <<ItemArg(other)>>, <<>>), self)
    ELSE Ok(s)

\* r1 is the outcome of the statements before other.append(self).
WrapAppend(r1, self, other) ==
    IF r1.err # "ok" THEN r1
    ELSE content_receiver("append", r1.s, other, <<ItemArg(self)>>, <<>>)

wrap(s, self, other) ==
    IF Len(s.childs[other]) > 0 THEN Raise(s, "TagError")
    ELSE WrapAppend(WrapDetach(s, self, other), self, other)

\* list(other) for the sequence given to replace_with.
ListOf(other) ==
    IF other.kind = "item" THEN <<other.obj>>
    ELSE [k \in 1..Len(other.elems) |->
             IF other.elems[k].kind = "item" THEN other.elems[k].obj
             ELSE ListObject]

\* DOMElement.replace_with: a DOMElement only rebinds the local name self;
\* a Content is neither a DOMElement nor iterable.
\* oi is the outcome of self._own_index; p is self.parent.
ReplaceSlice(s, p, other, oi) ==
    IF oi.err # "ok" THEN Raise(s, oi.err)
    ELSE IF oi.val = NoInt THEN Raise(s, "TypeError")
    ELSE Ok([s EXCEPT !.childs[p] =
                SubSeq(s.childs[p], 1, oi.val[1]) \o ListOf(other)
                \o SubSeq(s.childs[p], oi.val[1] + 2, Len(s.childs[p]))])

replace_with(s, self, other) ==
    IF other.kind = "item" /\ other.obj \in Elems THEN Ok(s)
    ELSE IF other.kind = "item" /\ other.obj \in Conts THEN Raise(s, "TagError")
    ELSE IF s.parent[self] = None THEN Raise(s, "AttributeError")
    ELSE ReplaceSlice(s, s.parent[self], other, _own_index(s, self))

\* The keyword parameters of pop and the keyword remove and move pass to it.
PopKeywords == {"idx"}

PopKeywordGiven == "i"

\* self.parent.pop(i=self._own_index): oi is the outcome of self._own_index.
PopByKeyword(s, self, oi) ==
    IF oi.err # "ok" THEN Raise(s, oi.err)
    ELSE IF PopKeywordGiven \notin PopKeywords THEN Raise(s, "TypeError")
    ELSE WrapPopped(pop(s, s.parent[self], oi.val))

\* oi is the outcome of self._own_index in the condition of remove.
RemoveAt(s, self, oi) ==
    IF oi.err # "ok" THEN Raise(s, oi.err)
    ELSE IF oi.val # NoInt /\ oi.val[1] # 0 /\ Truthy(s, s.parent[self])
    THEN PopByKeyword(s, self, _own_index(s, self))
    ELSE Ok(s)

\* DOMElement.remove
remove(s, self) == RemoveAt(s, self, _own_index(s, self))

\* Positional parameters of _insert (self included) and the positional
\* arguments move passes to it (new_father included).
InsertParams == 4

MoveInsertArgs == 5

\* r is the outcome of self.parent.pop(i=self._own_index) in move.
MoveInsert(r, self, new_father, idx, prepend) ==
    IF r.err # "ok" THEN r
    ELSE IF MoveInsertArgs > InsertParams THEN Raise(r.s, "TypeError")
    ELSE Ok([_insert(r.s, new_father, self, idx, prepend)
                EXCEPT !.stable[new_father] = FALSE])

\* DOMElement.move
move(s, self, new_father, idx, prepend) ==
    IF s.parent[self] = None THEN Raise(s, "AttributeError")
    ELSE MoveInsert(PopByKeyword(s, self, _own_index(s, self)),
                    self, new_father, idx, prepend)

\* DOMElement.empty: the map object is never iterated, so no pop runs.
empty(s, self) == Ok([s EXCEPT !.stable[self] = FALSE])

\* DOMElement._find_content; fuel is the number of further calls the
\* interpreter's stack allows.
RECURSIVE _find_content(_, _, _, _)
_find_content(s, self, cont_name, fuel) ==
    IF s.content_data[self][cont_name] # Missing
    THEN [err |-> "ok", val |-> s.content_data[self][cont_name]]
    ELSE IF Truthy(s, s.parent[self])
    THEN IF fuel = 0 THEN [err |-> "RecursionError", val |-> ""]
         ELSE _find_content(s, s.parent[self], cont_name, fuel - 1)
    ELSE [err |-> "ok", val |-> ""]

\* Content.content: the list of resolved items, or the exception raised.
ContentItems(found) ==
    IF found.err # "ok" THEN [err |-> found.err, val |-> <<>>]
    ELSE IF found.val # "" THEN [err |-> "ok", val |-> <<found.val>>]
    ELSE [err |-> "StopIteration", val |-> <<>>]

Content_content(s, self) ==
    ContentItems(IF _fixed_content[self] # None
                 THEN [err |-> "ok", val |-> _fixed_content[self]]
                 ELSE IF s.parent[self] = None
                 THEN [err |-> "AttributeError", val |-> ""]
                 ELSE _find_content(s, s.parent[self], ContName[self], MaxDepth))

\* Content.render (no template): the items stringified and joined.
Content_render(s, self) == Content_content(s, self)

(***************************************************************************)
(* Tag: attributes and the cached render.                                  *)
(***************************************************************************)
\* A _render that holds no usable string (None or ''): falsy in Tag.render.
NoRender == <<>>

\* A dict is the sequence of its <<key, value>> entries in insertion order.
DictHas(d, key) == \E k \in 1..Len(d) : d[k][1] = key

DictGet(d, key) == d[CHOOSE k \in 1..Len(d) : d[k][1] = key][2]

\* dict.__setitem__: a dict keeps the position of a key it already holds.
DictSet(d, key, value) ==
    IF DictHas(d, key)
    THEN [k \in 1..Len(d) |-> IF d[k][1] = key THEN <<key, value>> ELSE d[k]]
    ELSE Append(d, <<key, value>>)

\* dict.update with the entries of another dict.
RECURSIVE DictUpdate(_, _)
DictUpdate(d, other) ==
    IF other = <<>> THEN d
    ELSE DictUpdate(DictSet(d, other[1][1], other[1][2]), Tail(other))

\* dict.pop(key, None)
DictPop(d, key) == SelectSeq(d, LAMBDA entry : entry[1] # key)

\* dict.get(key, default)
DictGetOr(d, key, default) == IF DictHas(d, key) THEN DictGet(d, key) ELSE default

_MAPPING_ATTRS == {"style"}

_MULTI_VALUES_ATTRS == {"klass", "typ"}

_SPECIALS == <<<<"klass", "class">>, <<"typ", "type">> >>

\* The attributes stored under plain keys are strings; '' is the falsy one.
\* A multi-value key holds a list and a mapping key a dict, falsy when empty.
Falsy(key, value) ==
    IF key \in _MULTI_VALUES_ATTRS \cup _MAPPING_ATTRS THEN value = <<>>
    ELSE value = ""

\* sep.join(parts), for parts given as token sequences.
RECURSIVE Join(_, _)
Join(parts, sep) ==
    IF parts = <<>> THEN <<>>
    ELSE IF Len(parts) = 1 THEN parts[1]
    ELSE parts[1] \o <<sep>> \o Join(Tail(parts), sep)

\* TagAttrs._FORMAT.get(k, lambda x: x)(v)
_FORMAT(key, value) ==
    IF key = "style"
    THEN Join([k \in 1..Len(value) |->
                  <<value[k][1], ": ", value[k][2], ";">>], " ")
    ELSE IF key \in {"klass", "typ"}
    THEN Join([k \in 1..Len(value) |-> <<value[k]>>], " ")
    ELSE <<value>>

\* A __setitem__ that replaces what a multi-value or mapping key holds.
TagAttrs_setitemReplacing(d, key, value) ==
    IF key \in _MULTI_VALUES_ATTRS THEN DictSet(d, key, <<value>>)
    ELSE DictSet(d, key, value)

\* TagAttrs.__setitem__
TagAttrs_setitem(d, key, value) ==
    IF key \in _MULTI_VALUES_ATTRS
    THEN DictSet(d, key, Append(DictGetOr(d, key, <<>>), value))
    ELSE IF key \in _MAPPING_ATTRS
    THEN DictSet(d, key, DictUpdate(DictGetOr(d, key, <<>>), value))
    ELSE DictSet(d, key, value)

\* The loop of TagAttrs.update over the entries of one mapping.
RECURSIVE TagAttrs_setitems(_, _)
TagAttrs_setitems(d, entries) ==
    IF entries = <<>> THEN d
    ELSE TagAttrs_setitems(TagAttrs_setitem(d, entries[1][1], entries[1][2]),
                           Tail(entries))

\* TagAttrs.update(attrs, **kwargs)
TagAttrs_update(d, mapping, kwargs) ==
    TagAttrs_setitems(TagAttrs_setitems(d, mapping), kwargs)

\* A render that keeps the entries with a falsy value.
RECURSIVE TagAttrs_renderAll(_)
TagAttrs_renderAll(d) ==
    IF d = <<>> THEN <<>>
    ELSE <<" ", DictGetOr(_SPECIALS, d[1][1], d[1][1]), "=">>
         \o _FORMAT(d[1][1], d[1][2]) \o TagAttrs_renderAll(Tail(d))

\* TagAttrs.render: ' key="value"' for every entry with a truthy value.
RECURSIVE TagAttrs_render(_)
TagAttrs_render(d) ==
    IF d = <<>> THEN <<>>
    ELSE (IF ~Falsy(d[1][1], d[1][2])
          THEN <<" ", DictGetOr(_SPECIALS, d[1][1], d[1][1]), "=">>
               \o _FORMAT(d[1][1], d[1][2])
          ELSE <<>>)
         \o TagAttrs_render(Tail(d))

\* Tag.attr(attrs, **kwargs): self.attrs.update(attrs or kwargs)
attr(s, self, mapping, kwargs) ==
    [s EXCEPT !.stable[self] = FALSE,
              !.attrs[self] = TagAttrs_update(s.attrs[self],
                                              IF mapping # <<>> THEN mapping
                                              ELSE kwargs, <<>>)]

\* Tag.remove_attr
remove_attr(s, self, key) ==
    [s EXCEPT !.stable[self] = FALSE,
              !.attrs[self] = DictPop(s.attrs[self], key)]

\* Tag.add_class: s has _stable cleared already.
add_class(s, self, cssclass) ==
    IF ~DictHas(s.attrs[self], "klass") THEN Raise(s, "KeyError")
    ELSE Ok([s EXCEPT !.attrs[self] =
                DictSet(@, "klass", Append(DictGet(@, "klass"), cssclass))])

\* list.remove: the first occurrence goes.
ListRemove(seq, x) ==
    LET k == CHOOSE j \in 1..Len(seq) :
                 seq[j] = x /\ \A h \in 1..(j - 1) : seq[h] # x
    IN SubSeq(seq, 1, k - 1) \o SubSeq(seq, k + 1, Len(seq))

\* Tag.remove_class: s has _stable cleared already.
remove_class(s, self, cssclass) ==
    IF ~DictHas(s.attrs[self], "klass") THEN Raise(s, "KeyError")
    ELSE IF \A k \in 1..Len(DictGet(s.attrs[self], "klass")) :
                DictGet(s.attrs[self], "klass")[k] # cssclass
    THEN Raise(s, "ValueError")
    ELSE Ok([s EXCEPT !.attrs[self] =
                DictSet(@, "klass", ListRemove(DictGet(@, "klass"), cssclass))])

\* Tag.css(*props, **kwprops): every positional argument here is a mapping.
css(s, self, props, kwprops) ==
    IF Len(props) = 1 THEN Ok(attr(s, self, <<<<"style", props[1]>> >>, <<>>))
    ELSE IF Len(props) = 2 THEN Raise(s, "TypeError")
    ELSE IF Len(props) > 2 THEN Raise(s, "TagError")
    ELSE IF kwprops # <<>>
    THEN Ok(attr(s, self, <<<<"style", kwprops>> >>, <<>>))
    ELSE Raise(s, "TagError")

\* Tag._template and VoidTag._template filled with tag, attrs and inner.
Template(self, attrsText, inner) ==
    IF self \in VoidElems
    THEN <<"<", self>> \o attrsText \o <<"/>">>
    ELSE <<"<", self>> \o attrsText \o <<">">> \o inner \o <<"</", self, ">">>

\* The injections at the head of Tag.render, one per dict argument.
RECURSIVE RenderInject(_, _, _)
RenderInject(s, self, args) ==
    IF args = <<>> THEN s
    ELSE RenderInject(inject(s, self, Head(args)), self, Tail(args))

\* Tag.render and Tag._get_child_renders.  py479 tells whether a
\* StopIteration raised inside a generator expression becomes a RuntimeError
\* (Python 3.7 and later) or silently ends the generator (earlier).
RECURSIVE Tag_render(_, _, _, _, _)
RECURSIVE _get_child_renders(_, _, _, _, _, _)
Tag_render(s, py479, self, args, fuel) ==
    IF fuel = 0 THEN [s |-> s, err |-> "RecursionError", val |-> <<>>]
    ELSE LET s1 == RenderInject(s, self, args)
         IN IF s1.stable[self] /\ s1.render[self] # NoRender
            THEN [s |-> s1, err |-> "ok", val |-> s1.render[self]]
            ELSE LET inner == IF self \notin VoidElems /\ Len(s1.childs[self]) > 0
                              THEN _get_child_renders(s1, py479, self, 1, <<>>,
                                                      fuel - 1)
                              ELSE [s |-> s1, err |-> "ok", val |-> <<>>]
                     text == Template(self, TagAttrs_render(s1.attrs[self]),
                                      inner.val)
                 IN IF inner.err # "ok" THEN inner
                    ELSE [s |-> [inner.s EXCEPT !.render[self] = text,
                                                !.stable[self] = TRUE],
                          err |-> "ok", val |-> text]

_get_child_renders(s, py479, self, k, acc, fuel) ==
    IF k > Len(s.childs[self]) THEN [s |-> s, err |-> "ok", val |-> acc]
    ELSE LET child == s.childs[self][k]
         IN IF child \in Elems
            THEN LET r == Tag_render(s, py479, child, <<>>, fuel)
                 IN IF r.err # "ok" THEN [s |-> r.s, err |-> r.err, val |-> <<>>]
                    ELSE _get_child_renders(r.s, py479, self, k + 1,
                                            acc \o r.val, fuel)
            ELSE IF child \in Conts
            THEN LET r == Content_render(s, child)
                 IN IF r.err = "StopIteration"
                    THEN (IF py479
                          THEN [s |-> s, err |-> "RuntimeError", val |-> <<>>]
                          ELSE [s |-> s, err |-> "ok", val |-> acc])
                    ELSE IF r.err # "ok"
                    THEN [s |-> s, err |-> r.err, val |-> <<>>]
                    ELSE _get_child_renders(s, py479, self, k + 1,
                                            acc \o r.val, fuel)
            ELSE _get_child_renders(s, py479, self, k + 1, acc \o <<child>>, fuel)

\* hash(x) raises TypeError for a DOMElement, whose __hash__ returns the
\* uuid object and not an integer; a Content and a string hash normally.
HashRaises(x) == x \in Elems

\* set(seq) raises when hashing one of the members does.
SetRaises(seq) == \E k \in 1..Len(seq) : HashRaises(seq[k])

\* list(set(seq) - given): the members of seq outside given, each once.  The
\* order of a set is arbitrary; the order of first occurrence is taken.
RECURSIVE ListOfSetMinus(_, _)
ListOfSetMinus(seq, given) ==
    IF seq = <<>> THEN <<>>
    ELSE (IF seq[1] \in given THEN <<>> ELSE <<seq[1]>>)
         \o ListOfSetMinus(SelectSeq(Tail(seq), LAMBDA x : x # seq[1]), given)

\* Iterations of the while loop of _dfs_tags after which the traversal is
\* taken not to terminate.
DfsFuel == 4 * Cardinality(Items)

\* DOMElement._dfs_tags: the while loop, from the stack, the set given and
\* the tags yielded so far; then the final yield of self.  A Content or a
\* string on the stack has no attribute childs.
RECURSIVE DfsLoop(_, _, _, _, _, _)
DfsLoop(s, self, stack, given, out, fuel) ==
    IF stack = <<>> THEN [out |-> Append(out, self), err |-> "ok"]
    ELSE IF fuel = 0 THEN [out |-> out, err |-> "NoTermination"]
    ELSE IF stack[Len(stack)] \notin Elems
    THEN [out |-> out, err |-> "AttributeError"]
    ELSE IF s.childs[stack[Len(stack)]] = <<>>
    THEN (IF HashRaises(stack[Len(stack)])
          THEN [out |-> out, err |-> "TypeError"]
          ELSE DfsLoop(s, self, SubSeq(stack, 1, Len(stack) - 1),
                       given \cup {stack[Len(stack)]},
                       Append(out, stack[Len(stack)]), fuel - 1))
    ELSE IF SetRaises(s.childs[stack[Len(stack)]])
    THEN [out |-> out, err |-> "TypeError"]
    ELSE IF \A k \in 1..Len(s.childs[stack[Len(stack)]]) :
                s.childs[stack[Len(stack)]][k] \in given
    THEN (IF HashRaises(stack[Len(stack)])
          THEN [out |-> out, err |-> "TypeError"]
          ELSE DfsLoop(s, self, SubSeq(stack, 1, Len(stack) - 1),
                       given \cup {stack[Len(stack)]},
                       Append(out, stack[Len(stack)]), fuel - 1))
    ELSE DfsLoop(s, self,
                 stack \o ListOfSetMinus(s.childs[stack[Len(stack)]], given),
                 given, out, fuel - 1)

_dfs_tags(s, self) == DfsLoop(s, self, s.childs[self], {}, <<>>, DfsFuel)

\* Content.stable: the attribute set in Content.__init__, never assigned
\* again.
Content_stable == FALSE

\* Tag.stable.  StableAll is all(c.stable for c in self.childs) from the
\* k-th child on; a child that is neither a Tag nor a Content has no
\* attribute stable.  fuel is the depth the interpreter's stack allows.
RECURSIVE Tag_stable(_, _, _)
RECURSIVE StableAll(_, _, _, _)
\* r is the outcome of c.stable for the k-th child.
StableAllNext(r, self, k, fuel) ==
    IF r.err # "ok" \/ ~r.val THEN r
    ELSE StableAll(r.s, self, k + 1, fuel)

StableAll(s, self, k, fuel) ==
    IF k > Len(s.childs[self]) THEN [s |-> s, err |-> "ok", val |-> TRUE]
    ELSE IF s.childs[self][k] \in Elems
    THEN StableAllNext(Tag_stable(s, s.childs[self][k], fuel), self, k, fuel)
    ELSE IF s.childs[self][k] \in Conts
    THEN StableAllNext([s |-> s, err |-> "ok", val |-> Content_stable],
                       self, k, fuel)
    ELSE [s |-> s, err |-> "AttributeError", val |-> FALSE]

\* a is the outcome of all(...); `and self._stable` follows it.
StableEnd(a, self) ==
    IF a.err # "ok" THEN a
    ELSE IF a.val /\ a.s.stable[self]
    THEN [s |-> [a.s EXCEPT !.stable[self] = TRUE], err |-> "ok", val |-> TRUE]
    ELSE [s |-> [a.s EXCEPT !.stable[self] = FALSE], err |-> "ok",
          val |-> FALSE]

Tag_stable(s, self, fuel) ==
    IF fuel = 0 THEN [s |-> s, err |-> "RecursionError", val |-> FALSE]
    ELSE StableEnd(StableAll(s, self, 1, fuel - 1), self)

(***************************************************************************)
(* Css: the style tag, whose attributes are the rules.                     *)
(***************************************************************************)
\* The values of a rule mapping, with the name of their class.
CssStr(v) == [cls |-> "str", val |-> v]

CssDict(items) == [cls |-> "dict", val |-> items]

\* A function that returns v when called.
CssFunc(v) == [cls |-> "function", val |-> v]

CssInt(v) == [cls |-> "int", val |-> v]

\* '%s: %s; %s' % (key, value, "\n" if pretty else "")
CssDeclaration(key, value, pretty) ==
    <<key, ": ", value, "; ", IF pretty THEN "\n" ELSE "">>

\* "}" + "\n\n" if pretty else ""
CssClosing(pretty) == IF pretty THEN "}\n\n" ELSE ""

\* The for loop of Css.render over the items of one node, from entry k:
\* the strings appended to result and the nodes appended to nodes_to_parse.
RECURSIVE CssItems(_, _, _, _, _)
CssItems(parents, node, k, pretty, acc) ==
    IF k > Len(node) THEN acc
    ELSE CssItems(parents, node, k + 1, pretty,
            IF node[k][2].cls \in {"str", "unicode", "function"}
            THEN [acc EXCEPT !.result =
                     @ \o CssDeclaration(node[k][1], node[k][2].val, pretty)]
            ELSE IF node[k][2].cls = "dict"
            THEN [acc EXCEPT !.queue =
                     Append(@, [parents |-> Append(parents, node[k][1]),
                                node |-> node[k][2].val])]
            ELSE acc)

\* The end of one iteration of the while loop: acc is the outcome of the for
\* loop.
CssClose(acc, pretty) ==
    IF acc.result # <<>>
    THEN [acc EXCEPT !.result = Append(@, CssClosing(pretty))]
    ELSE acc

\* The while loop of Css.render.
RECURSIVE CssLoop(_, _, _)
RECURSIVE CssLoopNext(_, _)
CssLoopNext(acc, pretty) == CssLoop(acc.queue, acc.result, pretty)

CssLoop(queue, result, pretty) ==
    IF queue = <<>> THEN result
    ELSE CssLoopNext(
             CssClose(
                 CssItems(queue[1].parents, queue[1].node, 1, pretty,
                          [queue |-> Tail(queue),
                           result |-> IF queue[1].parents # <<>>
                                      THEN result
                                           \o Join([k \in 1..Len(queue[1].parents)
                                                      |-> <<queue[1].parents[k]>>],
                                                   " ")
                                           \o <<" { ">>
                                      ELSE result]),
                 pretty),
             pretty)

\* ''.join(result): the empty strings leave no trace.
JoinAll(result) == SelectSeq(result, LAMBDA x : x # "")

\* Css.render
Css_render(d, pretty) ==
    <<"<style>">> \o JoinAll(CssLoop(<<[parents |-> <<>>, node |-> d]>>, <<>>,
                                     pretty))
    \o <<"</style>">>

(***************************************************************************)
(* The state machine.                                                      *)
(***************************************************************************)
\* The objects as one record, the form the operators above work on.
St == [childs |-> childs, parent |-> parent, content_data |-> content_data,
       attrs |-> attrs, stable |-> _stable, render |-> _render]

\* DOMElement.__init__, Content.__init__ and Tag.__init__ up to the render
\* of a void tag.
Constructed ==
    [childs |-> [e \in Elems |-> <<>>],
     parent |-> [n \in Nodes |-> None],
     content_data |-> [e \in Elems |-> [n \in Names |-> Missing]],
     attrs |-> [e \in Elems |-> <<>>],
     stable |-> [e \in Elems |-> FALSE],
     render |-> [e \in Elems |-> NoRender]]

\* Tag.__init__ ends with self._render = self.render() when _void is set.
RECURSIVE InitVoid(_, _)
InitVoid(s, todo) ==
    IF todo = {} THEN s
    ELSE LET e == CHOOSE x \in todo : TRUE
         IN InitVoid(Tag_render(s, TRUE, e, <<>>, MaxDepth).s, todo \ {e})

InitState == InitVoid(Constructed, VoidElems)

NoCall == [op |-> "init", inst |-> None, tags |-> <<>>, kwtags |-> <<>>,
           idx |-> NoInt, ret |-> <<>>, pre |-> InitState]

Constructed0 ==
    /\ childs = InitState.childs
    /\ parent = InitState.parent
    /\ content_data = InitState.content_data
    /\ attrs = InitState.attrs
    /\ _stable = InitState.stable
    /\ _render = InitState.render
    /\ err = "ok"
    /\ last = NoCall
    /\ ops = 0

\* The effect of one call: the objects after it, the exception that left it
\* (or "ok"), and a record of the call and of the objects before it.
Returns(r, call) ==
    /\ childs' = r.s.childs
    /\ parent' = r.s.parent
    /\ content_data' = r.s.content_data
    /\ attrs' = r.s.attrs
    /\ _stable' = r.s.stable
    /\ _render' = r.s.render
    /\ err' = r.err
    /\ last' = [call EXCEPT !.pre = St]
    /\ ops' = ops + 1
    /\ UNCHANGED pep479

CallOf(op, inst, tags, kwtags) == [NoCall EXCEPT !.op = op, !.inst = inst,
                                     !.tags = tags, !.kwtags = kwtags]

\* inst(*tags, **kwtags)
Call(inst, tags, kwtags) ==
    Returns(content_receiver("__call__", St, inst, tags, kwtags),
            CallOf("__call__", inst, tags, kwtags))

\* inst.after(*tags, **kwtags)
After(inst, tags, kwtags) ==
    Returns(content_receiver("after", St, inst, tags, kwtags),
            CallOf("after", inst, tags, kwtags))

\* inst.before(*tags, **kwtags)
Before(inst, tags, kwtags) ==
    Returns(content_receiver("before", St, inst, tags, kwtags),
            CallOf("before", inst, tags, kwtags))

\* inst.prepend(*tags, **kwtags)
Prepend(inst, tags, kwtags) ==
    Returns(content_receiver("prepend", St, inst, tags, kwtags),
            CallOf("prepend", inst, tags, kwtags))

\* inst.append(*tags, **kwtags)
AppendTo(inst, tags, kwtags) ==
    Returns(content_receiver("append", St, inst, tags, kwtags),
            CallOf("append", inst, tags, kwtags))

\* inst.wrap(other)
Wrap(inst, other) ==
    Returns(wrap(St, inst, other),
            CallOf("wrap", inst, <<ItemArg(other)>>, <<>>))

\* inst.replace_with(other)
ReplaceWith(inst, other) ==
    Returns(replace_with(St, inst, other),
            CallOf("replace_with", inst, <<other>>, <<>>))

\* inst.pop(idx)
PopReturns(r, inst, idx) ==
    Returns(r, [CallOf("pop", inst, <<>>, <<>>) EXCEPT
                   !.idx = idx, !.ret = <<r.ret>>])

Pop(inst, idx) == PopReturns(pop(St, inst, idx), inst, idx)

\* inst.remove()
Remove(inst) == Returns(remove(St, inst), CallOf("remove", inst, <<>>, <<>>))

\* inst.empty()
Empty(inst) == Returns(empty(St, inst), CallOf("empty", inst, <<>>, <<>>))

\* inst.move(new_father, idx, prepend)
Move(inst, new_father, idx, prepend) ==
    Returns(move(St, inst, new_father, idx, prepend),
            [CallOf("move", inst, <<ItemArg(new_father)>>,
                    <<ItemArg(IF prepend THEN "prepend" ELSE "")>>)
                EXCEPT !.idx = idx])

\* inst.inject(name=value)
Inject(inst, name, value) ==
    Returns(Ok(inject(St, inst, [n \in Names |-> IF n = name THEN value
                                                  ELSE Missing])),
            CallOf("inject", inst, <<>>, <<ItemArg(value)>>))

\* inst.attr(id=value)
Attr(inst, value) ==
    Returns(Ok(attr(St, inst, <<>>, <<<<"id", value>> >>)),
            CallOf("attr", inst, <<>>, <<ItemArg(value)>>))

\* inst.attrs[key] = value
AttrsSetItem(inst, key, value) ==
    Returns(Ok([St EXCEPT !.attrs[inst] = TagAttrs_setitem(@, key, value)]),
            CallOf("setitem", inst, <<<<key, value>> >>, <<>>))

\* inst.attrs.update(mapping, **kwargs)
AttrsUpdate(inst, mapping, kwargs) ==
    Returns(Ok([St EXCEPT !.attrs[inst] = TagAttrs_update(@, mapping, kwargs)]),
            CallOf("update", inst, mapping, kwargs))

\* inst.attr(mapping) or inst.attr(**kwargs)
AttrWrite(inst, mapping, kwargs) ==
    Returns(Ok(attr(St, inst, mapping, kwargs)),
            CallOf("attr_write", inst, mapping, kwargs))

\* inst.remove_attr(key)
RemoveAttr(inst, key) ==
    Returns(Ok(remove_attr(St, inst, key)),
            CallOf("remove_attr", inst, <<key>>, <<>>))

\* inst.add_class(cssclass)
AddClass(inst, cssclass) ==
    Returns(add_class([St EXCEPT !.stable[inst] = FALSE], inst, cssclass),
            CallOf("add_class", inst, <<<<"klass", cssclass>> >>, <<>>))

\* inst.remove_class(cssclass)
RemoveClass(inst, cssclass) ==
    Returns(remove_class([St EXCEPT !.stable[inst] = FALSE], inst, cssclass),
            CallOf("remove_class", inst, <<cssclass>>, <<>>))

\* inst.css(*props, **kwprops)
Css(inst, props, kwprops) ==
    Returns(css([St EXCEPT !.stable[inst] = FALSE], inst, props, kwprops),
            CallOf("css", inst, props, kwprops))

\* inst.render(pretty=pretty) on a Css
CssRender(inst, pretty) ==
    Returns(Ok(St),
            [CallOf("css_render", inst, <<>>,
                    <<ItemArg(IF pretty THEN "pretty" ELSE "")>>)
                EXCEPT !.ret = Css_render(attrs[inst], pretty)])

\* list(inst._dfs_tags()): r is the outcome of the traversal, which changes
\* no object.
DfsReturns(r, inst) ==
    Returns([s |-> St, err |-> r.err],
            [CallOf("_dfs_tags", inst, <<>>, <<>>) EXCEPT !.ret = r.out])

Dfs(inst) == DfsReturns(_dfs_tags(St, inst), inst)

\* inst.stable
StableReturns(r, inst) ==
    Returns(r, [CallOf("stable", inst, <<>>, <<>>) EXCEPT !.ret = <<r.val>>])

Stable(inst) == StableReturns(Tag_stable(St, inst, MaxDepth), inst)

\* inst.render(*args): each argument a dict binding one name.
RenderReturns(r, inst) ==
    Returns(r, [CallOf("render", inst, <<>>, <<>>) EXCEPT !.ret = r.val])

Render(inst, args) ==
    RenderReturns(Tag_render(St, pep479, inst, args, MaxDepth), inst)

(***************************************************************************)
(* The inputs of the calls.                                                *)
(***************************************************************************)
\* The objects passed as children.
ArgItems == Elems \cup {"c1", "t"}

\* The pairs of items passed together.
ItemPairs == {<<"e2", "e3">>, <<"e3", "t">>, <<"c1", "e2">>}

\* Positional arguments: none, one item, two items, one list / tuple /
\* generator of two items, an item followed by a list of one item, an empty
\* list.
TagsSet ==
    {<<>>}
    \cup {<<SeqArg("list", <<>>)>>}
    \cup {<<ItemArg(a)>> : a \in ArgItems}
    \cup {<<ItemArg(p[1]), ItemArg(p[2])>> : p \in ItemPairs}
    \cup {<<SeqArg(k, <<ItemArg(p[1]), ItemArg(p[2])>>)>> :
              p \in ItemPairs, k \in SeqKinds}
    \cup {<<ItemArg(p[1]), SeqArg("list", <<ItemArg(p[2])>>)>> : p \in ItemPairs}

\* Keyword arguments: a named item, a named list.
KwSet == {<<ItemArg("c1")>>, <<SeqArg("list", <<ItemArg("t")>>)>>}

\* The argument lists of a child accepting call.
CallArgs ==
    {<<tags, <<>> >> : tags \in TagsSet}
    \cup {<<tags, kw>> : tags \in {<<>>, <<ItemArg("e2")>>}, kw \in KwSet}

\* The argument of replace_with: an item, or a list of at most two items.
ReplaceArgs ==
    {ItemArg(a) : a \in ArgItems}
    \cup {SeqArg("list", <<>>)}
    \cup {SeqArg("list", <<ItemArg(a)>>) : a \in ArgItems}
    \cup {SeqArg("list", <<ItemArg(p[1]), ItemArg(p[2])>>) : p \in ItemPairs}

\* The index given to pop (None when omitted).
PopArgs == {NoInt, Some(0), Some(1), Some(2)}

\* The index given to move (None when omitted).
MoveIdx == {NoInt, Some(0), Some(1)}

(***************************************************************************)
(* Spec: the calls that change the tree, on freshly constructed objects.   *)
(***************************************************************************)
Init == Constructed0 /\ pep479 = TRUE

Next ==
    /\ ops < MaxOps
    /\ \/ \E inst \in Elems, a \in CallArgs : Call(inst, a[1], a[2])
       \/ \E inst \in Elems, a \in CallArgs : After(inst, a[1], a[2])
       \/ \E inst \in Elems, a \in CallArgs : Before(inst, a[1], a[2])
       \/ \E inst \in Elems, a \in CallArgs : Prepend(inst, a[1], a[2])
       \/ \E inst \in Elems, a \in CallArgs : AppendTo(inst, a[1], a[2])
       \/ \E inst \in Elems, other \in Elems : Wrap(inst, other)
       \/ \E inst \in Elems, other \in ReplaceArgs : ReplaceWith(inst, other)
       \/ \E inst \in Elems, idx \in PopArgs : Pop(inst, idx)
       \/ \E inst \in Elems : Remove(inst)
       \/ \E inst \in Elems : Empty(inst)
       \/ \E inst \in Elems, new_father \in Elems, idx \in MoveIdx,
             prepend \in BOOLEAN : Move(inst, new_father, idx, prepend)

Spec == Init /\ [][Next]_vars

(***************************************************************************)
(* SpecRender: building a tree one child at a time, changing attributes    *)
(* and bindings, and rendering, under either behaviour of the interpreter. *)
(***************************************************************************)
\* The children added in SpecRender.
RenderItems == {"e2", "e3", "c1", "c2", "t"}

\* The dict arguments of render: none, or one dict binding x.
RenderArgs == {<<>>, <<[n \in Names |-> "v2"]>>}

InitRender == Constructed0 /\ pep479 \in BOOLEAN

NextRender ==
    /\ ops < MaxRenderOps
    /\ \/ \E inst \in Elems, a \in RenderItems : Call(inst, <<ItemArg(a)>>, <<>>)
       \/ \E inst \in Elems : After(inst, <<ItemArg("t")>>, <<>>)
       \/ \E inst \in Elems : ReplaceWith(inst, SeqArg("list", <<>>))
       \/ \E inst \in Elems : Pop(inst, NoInt)
       \/ \E inst \in Elems, v \in Vals : Inject(inst, "x", v)
       \/ \E inst \in Elems, v \in AttrVals : Attr(inst, v)
       \/ \E inst \in Elems, args \in RenderArgs : Render(inst, args)

SpecRender == InitRender /\ [][NextRender]_vars

(***************************************************************************)
(* SpecAttrs: writes to the attributes of an element, through the          *)
(* container and through the element, and renders of the element.          *)
(***************************************************************************)
\* The values written under a plain key and the classes added.
PlainVals == {"", "a", "b"}

Classes == {"a", "b"}

\* The style mappings written.
Styles == {<<<<"color", "red">> >>, <<<<"border", "1px">> >>,
           <<<<"color", "blue">> >>}

\* One entry of a write.
WriteEntries ==
    {<<"id", v>> : v \in PlainVals}
    \cup {<<"klass", c>> : c \in Classes}
    \cup {<<"style", m>> : m \in Styles}

\* The elements written to: one with children and a closing tag.
AttrElems == {"e1"}

NextAttrs ==
    /\ ops < MaxAttrOps
    /\ \/ \E inst \in AttrElems, w \in WriteEntries :
              AttrsSetItem(inst, w[1], w[2])
       \/ \E inst \in AttrElems, w \in WriteEntries :
              AttrsUpdate(inst, <<w>>, <<<<"klass", "b">> >>)
       \/ \E inst \in AttrElems, w \in WriteEntries :
              \/ AttrWrite(inst, <<>>, <<w>>)
              \/ AttrWrite(inst, <<w, <<"id", "b">> >>, <<>>)
       \/ \E inst \in AttrElems, key \in {"id", "klass", "style"} :
              RemoveAttr(inst, key)
       \/ \E inst \in AttrElems, c \in Classes : AddClass(inst, c)
       \/ \E inst \in AttrElems, c \in Classes : RemoveClass(inst, c)
       \/ \E inst \in AttrElems, m \in Styles :
              \/ Css(inst, <<m>>, <<>>)
              \/ Css(inst, <<>>, m)
       \/ \E inst \in AttrElems : Css(inst, <<>>, <<>>)
       \/ \E inst \in AttrElems : Render(inst, <<>>)

SpecAttrs == Init /\ [][NextAttrs]_vars

(***************************************************************************)
(* SpecCss: rules given to a Css element through attr, and its renders.    *)
(***************************************************************************)
\* Rule bodies without nested rule.
CssLeaves ==
    {<<>>,
     <<<<"color", CssStr("red")>> >>,
     <<<<"color", CssStr("green")>>, <<"border", CssFunc("1px")>> >>}

\* Rule bodies: a leaf, or a declaration followed by one nested rule.
CssNodes ==
    CssLeaves
    \cup {<<<<"color", CssStr("red")>>, <<"div", CssDict(l)>> >> : l \in CssLeaves}

\* The entries given to attr: rules, a declaration and a number at the root.
CssRules ==
    {<<sel, CssDict(n)>> : sel \in {"html body", "html", "#myid"}, n \in CssNodes}
    \cup {<<"color", CssStr("red")>>, <<"width", CssInt("1")>>}

\* The elements that are Css instances in SpecCss.
CssElems == {"e1"}

NextCss ==
    /\ ops < MaxCssOps
    /\ \/ \E inst \in CssElems, rule \in CssRules :
              AttrWrite(inst, <<rule>>, <<>>)
       \/ \E inst \in CssElems, pretty \in BOOLEAN : CssRender(inst, pretty)

SpecCss == Init /\ [][NextCss]_vars

(***************************************************************************)
(* SpecStable: children added, attributes changed, renders, and queries of *)
(* the stable property.                                                    *)
(***************************************************************************)
\* The elements that receive children in SpecStable.
StableHolders == {"e1", "e2"}

\* The children added in SpecStable.
StableChildren == {"e2", "e3", "c2", "t"}

NextStable ==
    /\ ops < MaxStableOps
    /\ \/ \E inst \in StableHolders, a \in StableChildren :
              Call(inst, <<ItemArg(a)>>, <<>>)
       \/ \E inst \in StableHolders : Attr(inst, "a")
       \/ \E inst \in StableHolders : Render(inst, <<>>)
       \/ \E inst \in Elems : Stable(inst)

SpecStable == Init /\ [][NextStable]_vars

(***************************************************************************)
(* SpecDfs: trees built by calls, and their depth-first traversals.        *)
(***************************************************************************)
\* The argument lists of the calls of SpecDfs: one item or two.
DfsArgs ==
    {<<ItemArg(a)>> : a \in ArgItems}
    \cup {<<ItemArg(p[1]), ItemArg(p[2])>> : p \in ItemPairs}

NextDfs ==
    /\ ops < MaxDfsOps
    /\ \/ \E inst \in Elems, tags \in DfsArgs : Call(inst, tags, <<>>)
       \/ \E inst \in Elems : Dfs(inst)

SpecDfs == Init /\ [][NextDfs]_vars

(***************************************************************************)
(* SpecContent: placeholders attached, bound and rendered, directly and    *)
(* through the element that holds them.                                    *)
(***************************************************************************)
\* r is the outcome of Content.render, which changes no object.
ContentRenderReturns(r, inst) ==
    Returns([s |-> St, err |-> r.err],
            [CallOf("content_render", inst, <<>>, <<>>) EXCEPT !.ret = r.val])

\* inst.render() on a Content
ContentRender(inst) == ContentRenderReturns(Content_render(St, inst), inst)

\* The elements that receive children in SpecContent.
ContentHolders == {"e1", "e2"}

\* The children added in SpecContent.
ContentChildren == {"e2", "c1", "c2", "t"}

NextContent ==
    /\ ops < MaxContentOps
    /\ \/ \E inst \in ContentHolders, a \in ContentChildren :
              Call(inst, <<ItemArg(a)>>, <<>>)
       \/ \E inst \in ContentHolders, v \in Vals : Inject(inst, "x", v)
       \/ \E inst \in ContentHolders : Render(inst, <<>>)
       \/ \E c \in Conts : ContentRender(c)

SpecContent == InitRender /\ [][NextContent]_vars

(***************************************************************************)
(* Helpers of the properties.                                              *)
(***************************************************************************)
\* How many times x occurs in seq.
Count(seq, x) == Cardinality({k \in 1..Len(seq) : seq[k] = x})

\* The first position of x in seq.
PosOf(seq, x) == CHOOSE k \in 1..Len(seq) :
                    seq[k] = x /\ \A j \in 1..(k - 1) : seq[j] # x

\* The nodes met following parent references from n, n included.
RECURSIVE ParentChain(_, _)
ParentChain(n, fuel) ==
    IF n = None \/ fuel = 0 THEN {}
    ELSE {n} \cup ParentChain(parent[n], fuel - 1)

\* The binding for name held by the nearest node of the parent chain that
\* starts at n, Missing when no node of the chain binds it.
RECURSIVE NearestBinding(_, _, _)
NearestBinding(n, name, fuel) ==
    IF n = None \/ fuel = 0 THEN Missing
    ELSE IF content_data[n][name] # Missing THEN content_data[n][name]
    ELSE NearestBinding(parent[n], name, fuel - 1)

\* The arguments flattened left to right, nested sequences spliced in place.
RECURSIVE Flat(_)
Flat(tags) ==
    IF tags = <<>> THEN <<>>
    ELSE (IF Head(tags).kind = "item" THEN <<Head(tags).obj>>
          ELSE Flat(Head(tags).elems)) \o Flat(Tail(tags))

\* Adding the children xs to inst one call at a time, from the objects s.
RECURSIVE OneAtATime(_, _, _)
OneAtATime(s, inst, xs) ==
    IF xs = <<>> THEN Ok(s)
    ELSE LET r == content_receiver("__call__", s, inst, <<Head(xs)>>, <<>>)
         IN IF r.err # "ok" THEN r ELSE OneAtATime(r.s, inst, Tail(xs))

\* Every cache cleared: no element stable, no cached string.
Cleared(s) == [s EXCEPT !.stable = [e \in Elems |-> FALSE],
                        !.render = [e \in Elems |-> NoRender]]

\* Each tree node is in at most one child list of s, at most once.
SingleParentIn(s) ==
    \A n \in Nodes :
        /\ \A e \in Elems : Count(s.childs[e], n) <= 1
        /\ \A e, f \in Elems :
              (Count(s.childs[e], n) > 0 /\ Count(s.childs[f], n) > 0) => e = f

\* In s, the parent of a node is None exactly when no child list holds
\* the node, and every node that holds it is its parent.
ParentConsistentIn(s) ==
    \A n \in Nodes :
        /\ s.parent[n] # None <=> \E e \in Elems : Count(s.childs[e], n) > 0
        /\ \A e \in Elems : Count(s.childs[e], n) > 0 => s.parent[n] = e

\* The nodes of s met following parent references from n, n included.
RECURSIVE ChainIn(_, _, _)
ChainIn(s, n, fuel) ==
    IF n = None \/ fuel = 0 THEN {}
    ELSE {n} \cup ChainIn(s, s.parent[n], fuel - 1)

\* The objects s form trees: single parents, consistent back-references,
\* and no node among its own ancestors.
WellFormed(s) ==
    /\ SingleParentIn(s)
    /\ ParentConsistentIn(s)
    /\ \A e \in Elems : e \notin ChainIn(s, s.parent[e], MaxDepth + 1)

\* The items xs are different objects, and the tree nodes among them are
\* detached in s and are neither inst nor an ancestor of inst.
Detached(s, inst, xs) ==
    /\ \A j, k \in 1..Len(xs) : xs[j] = xs[k] => j = k
    /\ \A k \in 1..Len(xs) :
          xs[k] \in Nodes =>
              /\ s.parent[xs[k]] = None
              /\ \A e \in Elems : Count(s.childs[e], xs[k]) = 0
              /\ xs[k] \notin ChainIn(s, inst, MaxDepth + 1)

\* The last call was made on well formed trees, with positional arguments
\* only, at least one, no generator among them, and detached children.
PlainArgs ==
    /\ last.tags # <<>>
    /\ last.kwtags = <<>>
    /\ \A k \in 1..Len(last.tags) : last.tags[k].kind # "generator"
    /\ WellFormed(last.pre)
    /\ Detached(last.pre, last.inst, Flat(last.tags))

\* Before the last call, S was a child, behind tree nodes only.
WasChild(S) ==
    /\ last.pre.parent[S] # None
    /\ \A k \in 1..Len(last.pre.childs[last.pre.parent[S]]) :
          last.pre.childs[last.pre.parent[S]][k] \in Nodes

\* seq without the occurrences of x, the rest in the same order.
Without(seq, x) == SelectSeq(seq, LAMBDA y : y # x)

\* seq with the slot at 0-based position k replaced by the items of mid.
Spliced(seq, k, mid) == SubSeq(seq, 1, k) \o mid \o SubSeq(seq, k + 2, Len(seq))

\* The 0-based position of S in the child list of its parent before the
\* last call.
WasAt(S) == PosOf(last.pre.childs[last.pre.parent[S]], S) - 1

(***************************************************************************)
(* The properties.                                                         *)
(***************************************************************************)
\* C1: cache correctness.  In every state and for every element E whose
\* render from scratch (every _stable false, every _render absent) returns
\* a string, E.render() returns that same string.
C1_CacheCorrect ==
    \A e \in Elems :
        LET fresh == Tag_render(Cleared(St), pep479, e, <<>>, MaxDepth)
            actual == Tag_render(St, pep479, e, <<>>, MaxDepth)
        IN fresh.err = "ok" => actual.err = "ok" /\ actual.val = fresh.val

\* C2: upward dirty propagation.  Right after a mutating call on a node N
\* that returned, _stable is false on N and on every ancestor of N.
C2_DirtyPropagation ==
    (/\ last.op \in {"__call__", "after", "pop", "attr", "inject"}
     /\ err = "ok")
    => \A a \in ParentChain(last.inst, MaxDepth + 1) : ~_stable[a]

\* C3: single parent.  In every state each tree node occurs in at most one
\* child list, and at most once in it.
C3_SingleParent == SingleParentIn(St)

\* C4: parent back-reference.  In every state and for every tree node N,
\* N.parent is not None exactly when N is in some child list, and every
\* node that holds N in its child list is N.parent.
C4_ParentConsistent == ParentConsistentIn(St)

\* C5: sequence splicing.  A call whose only argument is a list, a tuple
\* or a generator of detached children returns, and leaves the same child
\* list as adding the same children one call at a time in the same order.
C5_SplicingEquivalence ==
    (/\ last.op = "__call__"
     /\ Len(last.tags) = 1
     /\ last.tags[1].kind \in SeqKinds
     /\ last.kwtags = <<>>
     /\ WellFormed(last.pre)
     /\ Detached(last.pre, last.inst, Flat(last.tags)))
    => LET one == OneAtATime(last.pre, last.inst, last.tags[1].elems)
       IN /\ err = "ok"
          /\ one.err = "ok"
          /\ childs[last.inst] = one.s.childs[last.inst]

\* C6: argument order of before / after.  For S a child of P, S.after(x1..xn)
\* returns and leaves P's children as before with the flattened arguments,
\* in left to right order, right after S; S.before(x1..xn) leaves them right
\* before S.
C6_SiblingOrder ==
    (/\ last.op \in {"after", "before"}
     /\ PlainArgs
     /\ WasChild(last.inst))
    => LET P == last.pre.parent[last.inst]
           old == last.pre.childs[P]
           k == PosOf(old, last.inst)
           cut == IF last.op = "after" THEN k ELSE k - 1
       IN /\ err = "ok"
          /\ childs[P] = SubSeq(old, 1, cut) \o Flat(last.tags)
                           \o SubSeq(old, cut + 1, Len(old))

\* C7: argument order of prepend / append.  P.prepend(x1..xn) returns and
\* leaves the flattened arguments, in left to right order, followed by P's
\* former children; P.append(x1..xn) leaves the former children followed by
\* the flattened arguments.
C7_PrependAppendOrder ==
    (/\ last.op \in {"prepend", "append"}
     /\ PlainArgs)
    => LET old == last.pre.childs[last.inst]
       IN /\ err = "ok"
          /\ childs[last.inst] = IF last.op = "prepend"
                                  THEN Flat(last.tags) \o old
                                  ELSE old \o Flat(last.tags)

\* C8: wrap error condition.  S.wrap(other) raises TagError exactly when
\* other has a child, and returns when other has none.
C8_WrapError ==
    (/\ last.op = "wrap"
     /\ WellFormed(last.pre)
     /\ last.tags[1].obj # last.inst)
    => LET other == last.tags[1].obj
       IN /\ err = "TagError" <=> Len(last.pre.childs[other]) > 0
          /\ Len(last.pre.childs[other]) = 0 => err = "ok"

\* C9: wrap effect.  For S the child at position k of P and other an
\* element without children, S.wrap(other) returns, puts other at position
\* k of P in place of S, makes [S] the child list of other and other the
\* parent of S.
C9_WrapEffect ==
    (/\ last.op = "wrap"
     /\ WellFormed(last.pre)
     /\ WasChild(last.inst)
     /\ Detached(last.pre, last.inst, <<last.tags[1].obj>>)
     /\ Len(last.pre.childs[last.tags[1].obj]) = 0)
    => LET S == last.inst
           other == last.tags[1].obj
           P == last.pre.parent[S]
           old == last.pre.childs[P]
       IN /\ err = "ok"
          /\ childs[P] = [old EXCEPT ![PosOf(old, S)] = other]
          /\ childs[other] = <<S>>
          /\ parent[S] = other

\* C10: nearest-ancestor shadowing.  For every placeholder without fixed
\* content, when some node of its parent chain binds its name, the lookup
\* returns the binding of the nearest such node; and an inject leaves the
\* injected value as the binding of the node.
C10_NearestShadowing ==
    /\ \A c \in Conts :
          (/\ _fixed_content[c] = None
           /\ parent[c] # None
           /\ NearestBinding(parent[c], ContName[c], MaxDepth + 1) # Missing)
          => LET f == _find_content(St, parent[c], ContName[c], MaxDepth)
             IN /\ f.err = "ok"
                /\ f.val = NearestBinding(parent[c], ContName[c], MaxDepth + 1)
    /\ last.op = "inject" => content_data[last.inst]["x"] = last.kwtags[1].obj

\* No node of the parent chain of placeholder c binds its name, and c has no
\* fixed content.
Unresolved(c) ==
    /\ _fixed_content[c] = None
    /\ NearestBinding(parent[c], ContName[c], MaxDepth + 1) = Missing

\* C11: an unresolved placeholder renders as the empty string.  A render of
\* a placeholder without fixed content whose name no node of its parent chain
\* binds (or that has no parent) returns the empty string without an error,
\* and so does the render of a well formed element holding such a
\* placeholder as a child.
C11_UnresolvedRendersEmpty ==
    /\ (last.op = "content_render" /\ Unresolved(last.inst))
          => (err = "ok" /\ last.ret = <<>>)
    /\ (/\ last.op = "render"
        /\ WellFormed(last.pre)
        /\ \E c \in Conts : /\ Unresolved(c)
                             /\ parent[c] = last.inst
                             /\ Count(last.pre.childs[last.inst], c) = 1)
          => err = "ok"

\* C12: remove detaches at every position.  After S.remove() on a child S of
\* P (in a well formed tree whose children are tree nodes) the call has
\* returned, S is not in P's child list, S.parent is None and the other
\* children of P keep their order; on a node without parent the call
\* returns and changes neither child lists nor parents.
C12_RemoveDetaches ==
    (last.op = "remove" /\ WellFormed(last.pre))
    => IF last.pre.parent[last.inst] # None
       THEN WasChild(last.inst)
            => /\ err = "ok"
               /\ parent[last.inst] = None
               /\ childs[last.pre.parent[last.inst]] =
                      Without(last.pre.childs[last.pre.parent[last.inst]],
                              last.inst)
       ELSE /\ err = "ok"
            /\ childs = last.pre.childs
            /\ parent = last.pre.parent

\* C13: pop removes the addressed child.  On a node with n >= 1 children,
\* pop(i) with 0 <= i < n returns the child that was at position i and
\* leaves the other children in their order; pop() does so for the last.
C13_PopAddressed ==
    (/\ last.op = "pop"
     /\ WellFormed(last.pre)
     /\ Len(last.pre.childs[last.inst]) >= 1
     /\ last.idx # NoInt => last.idx[1] < Len(last.pre.childs[last.inst]))
    => LET old == last.pre.childs[last.inst]
           i == IF last.idx = NoInt THEN Len(old) - 1 ELSE last.idx[1]
       IN /\ err = "ok"
          /\ last.ret = <<old[i + 1]>>
          /\ childs[last.inst] = Spliced(old, i, <<>>)

\* C14: empty removes every child.  After P.empty() on a well formed tree
\* the call has returned, P has no child and every tree node that was a
\* child of P has parent None.
C14_EmptyRemovesAll ==
    (last.op = "empty" /\ WellFormed(last.pre))
    => /\ err = "ok"
       /\ childs[last.inst] = <<>>
       /\ \A k \in 1..Len(last.pre.childs[last.inst]) :
              last.pre.childs[last.inst][k] \in Nodes
                  => parent[last.pre.childs[last.inst][k]] = None

\* C15: move relocates the node.  After S.move(Q, index, prepend) on a child
\* S of P in a well formed tree, with Q neither S nor below S, the call has
\* returned, S.parent is Q, S is not in P's child list unless P is Q, and
\* Q's child list is its former list (without S) with S inserted at index,
\* at 0 when prepend is set, at the end when no index is given.
C15_MoveRelocates ==
    (/\ last.op = "move"
     /\ WellFormed(last.pre)
     /\ WasChild(last.inst)
     /\ last.inst \notin ChainIn(last.pre, last.tags[1].obj, MaxDepth + 1))
    => LET S == last.inst
           P == last.pre.parent[S]
           Q == last.tags[1].obj
           base == Without(last.pre.childs[Q], S)
           at == IF last.kwtags[1].obj = "prepend" THEN 0
                 ELSE IF last.idx = NoInt \/ last.idx[1] > Len(base)
                 THEN Len(base) ELSE last.idx[1]
       IN /\ err = "ok"
          /\ parent[S] = Q
          /\ P # Q => Count(childs[P], S) = 0
          /\ childs[Q] = SubSeq(base, 1, at) \o <<S>>
                             \o SubSeq(base, at + 1, Len(base))

\* C16: replace_with substitutes in the parent's child list.  After
\* S.replace_with(other) on a child S at position k of P (well formed tree,
\* other made of detached items), the call has returned and P's child list
\* is its former list with slot k replaced by other, or by the items of
\* other in order when other is a sequence.
C16_ReplaceSubstitutes ==
    (/\ last.op = "replace_with"
     /\ WellFormed(last.pre)
     /\ WasChild(last.inst)
     /\ last.tags[1].kind \in {"item", "list"}
     /\ last.tags[1].kind = "item" => last.tags[1].obj \in Nodes
     /\ Detached(last.pre, last.inst, ListOf(last.tags[1])))
    => /\ err = "ok"
       /\ childs[last.pre.parent[last.inst]] =
              Spliced(last.pre.childs[last.pre.parent[last.inst]],
                      WasAt(last.inst), ListOf(last.tags[1]))

\* The last call was before or after, with at least one argument, on a node
\* that had no parent.
RootlessSibling ==
    /\ last.op \in {"before", "after"}
    /\ last.tags # <<>> \/ last.kwtags # <<>>
    /\ last.pre.parent[last.inst] = None

\* The last call raised, and left the receiver's child list and every
\* parent reference as they were.
FailedUntouched ==
    /\ err # "ok"
    /\ childs[last.inst] = last.pre.childs[last.inst]
    /\ parent = last.pre.parent

\* C20 as stated: before(...) or after(...) with at least one argument on a
\* node without parent raises, leaving the node's child list and the
\* arguments' parent references unchanged.
C20_AnyArgument == RootlessSibling => FailedUntouched

\* C20: before / after require a parent.  before(...) or after(...) whose
\* arguments hold at least one item once flattened, on a node without
\* parent, raises, leaving the node's child list and the arguments' parent
\* references unchanged.
C20_RootlessSiblingFails ==
    (RootlessSibling /\ (Flat(last.tags) # <<>> \/ last.kwtags # <<>>))
    => FailedUntouched

\* after with an item on a node without parent has raised AttributeError.
C20_Witness ==
    /\ RootlessSibling
    /\ last.op = "after"
    /\ Flat(last.tags) # <<>>
    /\ err = "AttributeError"

\* The keys written in SpecAttrs and the sub-keys of the style mappings.
AttrKeys == {"id", "klass", "style"}

StyleKeys == {"color", "border"}

\* The values the entries of writes give to key, in write order.
ValuesFor(writes, key) ==
    LET mine == SelectSeq(writes, LAMBDA w : w[1] = key)
    IN [k \in 1..Len(mine) |-> mine[k][2]]

\* The last of the mappings ms that binds sub-key sk (0 when none does).
LastBinding(ms, sk) ==
    IF \E k \in 1..Len(ms) : DictHas(ms[k], sk)
    THEN CHOOSE k \in 1..Len(ms) :
             /\ DictHas(ms[k], sk)
             /\ \A j \in (k + 1)..Len(ms) : ~DictHas(ms[j], sk)
    ELSE 0

\* Going from the dict old to the dict new, key follows its merge policy
\* for the values vs written to it in that order.
PolicyHolds(old, new, key, vs) ==
    IF vs = <<>>
    THEN /\ DictHas(new, key) <=> DictHas(old, key)
         /\ DictHas(old, key) => DictGet(new, key) = DictGet(old, key)
    ELSE /\ DictHas(new, key)
         /\ IF key \in {"klass", "typ"}
            THEN DictGet(new, key) = DictGetOr(old, key, <<>>) \o vs
            ELSE IF key = "style"
            THEN \A sk \in StyleKeys :
                    IF LastBinding(vs, sk) # 0
                    THEN /\ DictHas(DictGet(new, key), sk)
                         /\ DictGet(DictGet(new, key), sk) =
                                DictGet(vs[LastBinding(vs, sk)], sk)
                    ELSE /\ DictHas(DictGet(new, key), sk)
                               <=> DictHas(DictGetOr(old, key, <<>>), sk)
                         /\ DictHas(DictGet(new, key), sk)
                               => DictGet(DictGet(new, key), sk) =
                                     DictGet(DictGet(old, key), sk)
            ELSE DictGet(new, key) = vs[Len(vs)]

\* C17: attribute merge policies.  After a write through item assignment,
\* update, Tag.attr, add_class or css, a multi-value key holds what it held
\* followed by the values written, a mapping key holds the union of what it
\* held and the mappings written, the later winning per sub-key, and any
\* other key holds the last value written; keys not written keep what they
\* held.  Class a followed by add_class b renders class="a b", and css with
\* color then css with border render both declarations in that order.
C17_MergePolicies ==
    /\ (/\ last.op \in {"setitem", "update", "attr_write", "add_class"}
        /\ err = "ok")
       => \A key \in AttrKeys :
              PolicyHolds(last.pre.attrs[last.inst], attrs[last.inst], key,
                          ValuesFor(last.tags \o last.kwtags, key))
    /\ (last.op = "css" /\ err = "ok")
       => \A key \in AttrKeys :
              PolicyHolds(last.pre.attrs[last.inst], attrs[last.inst], key,
                          IF key = "style"
                          THEN (IF last.tags # <<>> THEN last.tags
                                ELSE <<last.kwtags>>)
                          ELSE <<>>)
    /\ (/\ last.op = "add_class"
        /\ err = "ok"
        /\ last.pre.attrs[last.inst] = <<<<"klass", <<"a">> >> >>
        /\ last.tags[1][2] = "b")
       => Tag_render(St, pep479, last.inst, <<>>, MaxDepth).val =
              <<"<", last.inst, " ", "class", "=", "a", " ", "b", ">",
                "</", last.inst, ">">>
    /\ (/\ last.op = "css"
        /\ err = "ok"
        /\ last.pre.attrs[last.inst] = <<<<"style", <<<<"color", "red">> >> >> >>
        /\ last.tags = <<<<<<"border", "1px">> >> >>)
       => Tag_render(St, pep479, last.inst, <<>>, MaxDepth).val =
              <<"<", last.inst, " ", "style", "=", "color", ": ", "red", ";",
                " ", "border", ": ", "1px", ";", ">", "</", last.inst, ">">>

\* A second class has been added to a class list that held one.
C17_Witness ==
    /\ last.op = "add_class"
    /\ err = "ok"
    /\ DictGet(attrs[last.inst], "klass") = <<"a", "b">>

\* tokens holds an entry ' name=...'.
HasEntry(tokens, name) ==
    \E i \in 1..(Len(tokens) - 2) :
        tokens[i] = " " /\ tokens[i + 1] = name /\ tokens[i + 2] = "="

\* C18: falsy attributes are omitted.  In every state the rendered
\* attributes of an element hold an entry for a key exactly when the element
\* stores a value for it that is not falsy; and after a remove_class that
\* leaves the class list empty the render of the element holds no class
\* attribute, also when the element was cached with the class.
C18_FalsyOmitted ==
    /\ \A e \in Elems, key \in AttrKeys :
          HasEntry(TagAttrs_render(attrs[e]), DictGetOr(_SPECIALS, key, key))
          <=> (/\ DictHas(attrs[e], key)
               /\ ~Falsy(key, DictGet(attrs[e], key)))
    /\ (/\ last.op = "remove_class"
        /\ err = "ok"
        /\ DictGet(attrs[last.inst], "klass") = <<>>)
       => ~HasEntry(Tag_render(St, pep479, last.inst, <<>>, MaxDepth).val,
                    "class")

\* The only class of an element cached with it has been removed.
C18_Witness ==
    /\ last.op = "remove_class"
    /\ err = "ok"
    /\ DictGet(attrs[last.inst], "klass") = <<>>
    /\ last.pre.stable[last.inst]
    /\ HasEntry(last.pre.render[last.inst], "class")

\* The nested mappings of the rule mapping d, d excluded, at any depth.
RECURSIVE CssBlocks(_)
CssBlocks(d) ==
    IF d = <<>> THEN 0
    ELSE (IF d[1][2].cls = "dict" THEN 1 + CssBlocks(d[1][2].val) ELSE 0)
         + CssBlocks(Tail(d))

\* C19: style-sheet rule blocks are well formed in compact mode.  A render
\* with pretty off opens one block per nested mapping and closes as many
\* blocks as it opens, and the rules { "html body": { color: "red" } }
\* render as <style>html body { color: red; }</style>.
C19_CssBlocksClosed ==
    (last.op = "css_render" /\ last.kwtags[1].obj = "")
    => /\ Count(last.ret, " { ") = CssBlocks(attrs[last.inst])
       /\ Count(last.ret, "}") = Count(last.ret, " { ")
       /\ attrs[last.inst] =
              <<<<"html body", CssDict(<<<<"color", CssStr("red")>> >>)>> >>
          => last.ret = <<"<style>", "html body", " { ", "color", ": ", "red",
                          "; ", "}", "</style>">>

\* In s, the dirty flag of e is clear and so is, recursively, that of
\* every child of e that is an element.
RECURSIVE StableIn(_, _, _)
StableIn(s, e, fuel) ==
    /\ s.stable[e]
    /\ fuel > 0
    /\ \A k \in 1..Len(s.childs[e]) :
          s.childs[e][k] \in Elems => StableIn(s, s.childs[e][k], fuel - 1)

\* C21: the stable property.  A query of stable on an element of a well
\* formed tree returns, and reports true exactly when the element's own
\* dirty flag is clear and every child that is an element is stable,
\* recursively; placeholder and plain children play no part.
C21_StableDefinition ==
    (last.op = "stable" /\ WellFormed(last.pre))
    => /\ err = "ok"
       /\ last.ret = <<StableIn(last.pre, last.inst, MaxDepth)>>

\* The nodes below n in s: its children, their children, and so on.
RECURSIVE Below(_, _, _)
Below(s, n, fuel) ==
    IF n \notin Elems \/ fuel = 0 THEN {}
    ELSE UNION {{s.childs[n][k]} \cup Below(s, s.childs[n][k], fuel - 1) :
                   k \in 1..Len(s.childs[n])}

\* C22: post-order traversal.  On a well formed tree whose nodes are tree
\* nodes, the traversal of a root ends without error, yields the root and
\* every node below it exactly once, each node after all of its children,
\* and the root last.
C22_PostOrder ==
    (/\ last.op = "_dfs_tags"
     /\ WellFormed(last.pre)
     /\ Below(last.pre, last.inst, MaxDepth + 1) \subseteq Nodes)
    => LET all == Below(last.pre, last.inst, MaxDepth + 1) \cup {last.inst}
       IN /\ err = "ok"
          /\ Len(last.ret) = Cardinality(all)
          /\ \A n \in all : Count(last.ret, n) = 1
          /\ last.ret[Len(last.ret)] = last.inst
          /\ \A n \in all \cap Elems :
                \A k \in 1..Len(last.pre.childs[n]) :
                    PosOf(last.ret, last.pre.childs[n][k]) < PosOf(last.ret, n)

\* Following parent references from n in s reaches a null parent within
\* fuel steps.
RECURSIVE ReachesRoot(_, _, _)
ReachesRoot(s, n, fuel) ==
    IF n = None THEN TRUE
    ELSE IF fuel = 0 THEN FALSE
    ELSE ReachesRoot(s, s.parent[n], fuel - 1)

\* C23: acyclicity.  In every state reached by insertions, wraps, moves and
\* removals, the parent references followed from any node reach a node with
\* a null parent within as many steps as there are nodes.
C23_Acyclic ==
    \A n \in Nodes : ReachesRoot(St, n, Cardinality(Nodes))

====
